---- MODULE Spec2Model ----
(***************************************************************************)
(* reddit-post-notifier: the polling loop of main(), the search cycle of   *)
(* send_reddit_notifications, the extraction of post records and the       *)
(* notified-ids file, as a state machine.                                  *)
(***************************************************************************)
EXTENDS Integers, Sequences, FiniteSets, TLC

(* ---------------------------- bounds ----------------------------------- *)
NumFullNames == 1   \* distinct data-fullname values the site returns
MaxPosts == 2       \* search-result nodes in one fetched page
NumQueries == 2     \* entries of searches.yml

(* ---------------------------- values ----------------------------------- *)
None == "<None>"            \* Python's None
NoExc == "<none>"           \* no exception raised

FullNamePool == << <<"t3", "abc">>, <<"t3", "def">>, <<"t3", "ghi">>, <<"t3", "jkl">> >>
FullNames == {FullNamePool[k] : k \in 1..NumFullNames}
IsoTimes == {"2024-06-01T12:00:00"}
TimeStrs == IsoTimes \cup {"yesterday"}

\* An optional child element or attribute: <<>> when the page does not have
\* it, <<v>> when it does.
Absent == <<>>
Has(opt) == opt # <<>>
Val(opt) == opt[1]

\* A string the code looks into is a sequence of pieces: a data-fullname is
\* its parts between underscores, a link starts with "/" when relative.
RelLink == <<"/", "r/x/comments/1">>
Origin == "https://www.reddit.com"

(* A search-result node: the attributes and child elements the parser      *)
(* looks at.                                                               *)
Nodes ==
    [fullname : {<<f>> : f \in FullNames} \cup {Absent},
     title : {<<[text |-> " Post ", href |-> <<RelLink>>]>>},
     author : {<<"alice">>},
     time : {<<[datetime |-> <<s>>]>> : s \in TimeStrs}]

RECURSIVE SeqsUpTo(_, _)
SeqsUpTo(S, n) ==
    IF n = 0 THEN {<<>>}
    ELSE LET shorter == SeqsUpTo(S, n - 1)
         IN shorter \cup {Append(s, x) : s \in {t \in shorter : Len(t) = n - 1}, x \in S}

Docs == SeqsUpTo(Nodes, MaxPosts)

\* searches.yml as load_search_config returns it
SubredditPool == <<"python", "rust", "golang", "haskell">>
cfg == [k \in 1..NumQueries |-> [subreddit |-> SubredditPool[k], search_query |-> "tla"]]

(* ------------------------ post extraction ------------------------------ *)
\* result.get("data-fullname", "").split("_")[-1]
PostId(fullname) ==
    LET parts == IF Has(fullname) THEN Val(fullname) ELSE <<"">>
    IN parts[Len(parts)]

\* title_element.text.strip()
Strip(text) == IF text = " Post " THEN "Post" ELSE text

FromIsoFormat(s) == IF s \in IsoTimes THEN s ELSE None

\* lines 72-73: a relative link is made absolute
AbsoluteLink(link) ==
    IF Len(link) > 0 /\ link[1] = "/" THEN <<Origin>> \o link ELSE link

\* the parser without the fallback of line 62
ParseNode_NoAuthorFallback(node) ==
    [id |-> PostId(node.fullname),
     title |-> IF Has(node.title) THEN Strip(Val(node.title).text) ELSE "No title found",
     author |-> IF Has(node.author) THEN Val(node.author) ELSE None,
     link |-> AbsoluteLink(IF Has(node.title) /\ Has(Val(node.title).href)
                           THEN Val(Val(node.title).href) ELSE <<>>),
     time |-> IF Has(node.time) /\ Has(Val(node.time).datetime)
              THEN FromIsoFormat(Val(Val(node.time).datetime)) ELSE None]

\* lines 50-88: the record of one search-result node
ParseNode(node) ==
    [id |-> PostId(node.fullname),
     title |-> IF Has(node.title) THEN Strip(Val(node.title).text) ELSE "No title found",
     author |-> IF Has(node.author) THEN Val(node.author) ELSE "Unknown",
     link |-> AbsoluteLink(IF Has(node.title) /\ Has(Val(node.title).href)
                           THEN Val(Val(node.title).href) ELSE <<>>),
     time |-> IF Has(node.time) /\ Has(Val(node.time).datetime)
              THEN FromIsoFormat(Val(Val(node.time).datetime)) ELSE None]

\* a parser that gives up on a node without a title link
parse_reddit_search_results_DropUntitled(doc) ==
    SelectSeq([k \in 1..Len(doc) |-> ParseNode(doc[k])],
              LAMBDA r : r.title # "No title found")

\* lines 46-90: one record per search-result node, in document order
parse_reddit_search_results(doc) == [k \in 1..Len(doc) |-> ParseNode(doc[k])]

\* lines 34-40: the download returns the parsed page, or None after a
\* RequestException
Downloads == {[ok |-> TRUE, doc |-> d] : d \in Docs} \cup {[ok |-> FALSE, doc |-> <<>>]}

\* the download without the except of line 38
download_exception_Uncaught(page) == IF page.ok THEN NoExc ELSE "RequestException"

\* lines 38-40: the RequestException of a failed download is caught there;
\* the exception that reaches the caller
download_exception(page) == NoExc

\* lines 96-99
fetch_and_parse_reddit_search(page) ==
    IF page.ok THEN parse_reddit_search_results(page.doc) ELSE <<>>

AllIds == {PostId(f) : f \in {<<g>> : g \in FullNames} \cup {Absent}}

(* ------------------------ notified-ids file ---------------------------- *)
Range(s) == {s[k] : k \in 1..Len(s)}
Perms(S) == {s \in [1..Cardinality(S) -> S] : Range(s) = S}

\* a dump that loses the first element of the list
JsonDump_Lossy(order) ==
    <<"[">> \o (IF order = <<>> THEN <<>> ELSE Tail(order)) \o <<"]">>

\* json.dump(list(notified_ids), f): the list order is the set's iteration order
JsonDump(order) == <<"[">> \o order \o <<"]">>

JsonValid(text) == Len(text) >= 2 /\ text[1] = "[" /\ text[Len(text)] = "]"

\* a load that drops what it read
JsonLoadSet_Empty(text) == {}

\* line 219: set(json.load(f))
JsonLoadSet(text) == {text[k] : k \in 2..(Len(text) - 1)}

NoFile == [exists |-> FALSE, text |-> <<>>]

InitFiles == {NoFile} \cup {[exists |-> TRUE, text |-> JsonDump(o)] : o \in UNION {Perms(S) : S \in SUBSET AllIds}}

(* --------------------------- dedup filter ------------------------------ *)
\* the filter that lets every post through
IsNew_Always(id, ids) == TRUE

\* a filter that takes a post without an id for a new one every time
IsNew_UnlessEmpty(id, ids) == id = "" \/ id \notin ids

\* line 136: post["id"] not in notified_ids
IsNew(id, ids) == id \notin ids

\* the loop that forgets to record the id
AddId_Forget(ids, id) == ids

\* an assignment in place of the add
AddId_Replace(ids, id) == {id}

\* line 156: notified_ids.add(post["id"])
AddId(ids, id) == ids \cup {id}

(* ----------------------------- notifier -------------------------------- *)
\* lines 138-149: the exception building the title and body raises:
\* datetime - None and None.astimezone are TypeError / AttributeError
build_exception(post) == IF post.time = None THEN "TypeError" ELSE NoExc

\* lines 141-143
NotificationTitle(subreddit, post) ==
    <<"New post in r/", subreddit, " by ", post.author, " ", <<"naturaltime", post.time>> >>

\* lines 144-149
NotificationBody(post) ==
    <<"Title: ", post.title, "Author: ", post.author,
      "Time: ", <<"America/New_York", post.time>>, "Link: ", post.link>>

\* the notifier without the except of line 116
send_pushbullet_notification_Uncaught(key, delivered) ==
    IF ~key THEN "ValueError" ELSE IF delivered THEN NoExc ELSE "RequestException"

\* the notifier that returns without a POST when the credential is missing
send_pushbullet_notification_NoKeyCheck(key, delivered) == NoExc

\* lines 102-117: the exception send_pushbullet_notification raises to its
\* caller; a failed POST (RequestException) is caught and logged
send_pushbullet_notification(key, delivered) ==
    IF ~key THEN "ValueError" ELSE NoExc

(* ------------------------------ main ----------------------------------- *)
\* the save moved into the for-loop
AfterCycle_SaveEach(k) == "save"

\* lines 228-238: after a cycle, the next query, or the save after the last
AfterCycle(k) == IF k < NumQueries THEN "fetch" ELSE "save"

(* ----------------------------- state ----------------------------------- *)
VARIABLES
    pc,             \* position of the process
    apiKey,         \* PUSHBULLET_API_KEY is set in the environment
    file,           \* notified_ids.json on disk
    notified_ids,   \* the in-memory set of main()
    q,              \* index of the search_config being processed
    posts,          \* posts of the running cycle
    idx,            \* index of the post the for-loop is at
    notified_cnt,   \* notified_cnt of the running cycle
    out,            \* the serialized list json.dump is writing
    err,            \* the exception that ended the pass or the process
    soup,           \* the page a download has returned and the parser has not
                    \* been given yet (line 96)
    \* history, for stating the properties
    stats,          \* the "Checked for new posts" line of the last cycle
    cyc,            \* the last cycle: entry set, fetched ids, dispatches, whether
                    \* the last of them was delivered, status
    sent,           \* notifications handed to the channel in this run, per id
    loaded,         \* the set loaded at the start of this run
    ran,            \* cycles started in this pass
    saves,          \* completed saves in this pass
    lastSaved,      \* the set the last completed save wrote (or the initial file's)
    unsaved,        \* ids notified in this run since the last completed save
    savedSent       \* ids notified in an earlier run that completed a save afterwards

vars == <<pc, apiKey, file, notified_ids, q, posts, idx, notified_cnt, out,
          err, soup, stats, cyc, sent, loaded, ran, saves, lastSaved, unsaved, savedSent>>

NoCycle == [S |-> {}, fetchOk |-> FALSE, ids |-> <<>>, idset |-> {}, notes |-> <<>>,
            delivered |-> TRUE, status |-> "none", repeat |-> FALSE]
NoStats == [total |-> -1, new |-> -1]

\* no download is waiting to be parsed
NoSoup == [ok |-> FALSE, doc |-> <<>>]

PostIdSeq(ps) == [k \in 1..Len(ps) |-> ps[k].id]

Init ==
    /\ pc = "boot"
    /\ apiKey \in BOOLEAN
    /\ file \in InitFiles
    /\ notified_ids = {}
    /\ q = 1
    /\ posts = <<>>
    /\ idx = 1
    /\ notified_cnt = 0
    /\ out = <<>>
    /\ err = NoExc
    /\ soup = NoSoup
    /\ stats = NoStats
    /\ cyc = NoCycle
    /\ sent = [id \in AllIds |-> 0]
    /\ loaded = {}
    /\ ran = 0
    /\ saves = 0
    /\ lastSaved = IF file.exists THEN JsonLoadSet(file.text) ELSE {}
    /\ unsaved = {}
    /\ savedSent = {}

(* ---------------------------- main() ----------------------------------- *)
\* the load without the except of line 220
LoadIds_Strict ==
    /\ UNCHANGED soup
    /\ pc = "boot"
    /\ IF file.exists /\ JsonValid(file.text)
       THEN notified_ids' = JsonLoadSet(file.text) /\ pc' = "pass" /\ err' = NoExc
       ELSE notified_ids' = {} /\ pc' = "dead"
            /\ err' = (IF file.exists THEN "JSONDecodeError" ELSE "FileNotFoundError")
    /\ loaded' = notified_ids'
    /\ UNCHANGED <<apiKey, file, q, posts, idx, notified_cnt, out>>
    /\ UNCHANGED <<stats, cyc, sent, ran, saves, lastSaved, unsaved, savedSent>>

\* lines 215-221: load the config and the notified ids
LoadIds ==
    /\ UNCHANGED soup
    /\ pc = "boot"
    /\ IF ~file.exists
       THEN notified_ids' = {} /\ pc' = "pass" /\ err' = NoExc
       ELSE IF JsonValid(file.text)
       THEN notified_ids' = JsonLoadSet(file.text) /\ pc' = "pass" /\ err' = NoExc
       ELSE \* json.load raises; only FileNotFoundError is caught
            notified_ids' = {} /\ pc' = "dead" /\ err' = "JSONDecodeError"
    /\ loaded' = notified_ids'
    /\ UNCHANGED <<apiKey, file, q, posts, idx, notified_cnt, out>>
    /\ UNCHANGED <<stats, cyc, sent, ran, saves, lastSaved, unsaved, savedSent>>

\* lines 223-228: the top of the while-loop, entering the try and the for
BeginPass ==
    /\ UNCHANGED soup
    /\ pc = "pass"
    /\ q' = 1
    /\ ran' = 0
    /\ saves' = 0
    /\ err' = NoExc
    /\ pc' = IF NumQueries >= 1 THEN "fetch" ELSE "save"
    /\ UNCHANGED <<apiKey, file, notified_ids, posts, idx, notified_cnt, out>>
    /\ UNCHANGED <<stats, cyc, sent, loaded, lastSaved, unsaved, savedSent>>

\* a pass that saves in a finally: the exception is followed by the save
Raise_ThenSave(e) ==
    /\ err' = e
    /\ pc' = "save"
    /\ posts' = <<>>
    /\ idx' = 1
    /\ notified_cnt' = 0
    /\ out' = <<>>

\* the pass without the except of line 240: the exception leaves main()
Raise_Uncaught(e) ==
    /\ err' = e
    /\ pc' = "dead"
    /\ posts' = <<>>
    /\ idx' = 1
    /\ notified_cnt' = 0
    /\ out' = <<>>

\* lines 240-242: an exception leaves the for-loop and the try; the except
\* logs it; the locals of the cycle are gone
Raise(e) ==
    /\ err' = e
    /\ pc' = "sleep"
    /\ posts' = <<>>
    /\ idx' = 1
    /\ notified_cnt' = 0
    /\ out' = <<>>

\* what line 132 can give: whether the download succeeded, the exception
\* that reaches the cycle, the posts returned
FetchOutcomes ==
    {[ok |-> dl.ok,
      exc |-> download_exception(dl),
      posts |-> fetch_and_parse_reddit_search(dl)] : dl \in Downloads}

\* the same, for the pages with at most one search result
ShortOutcomes == {f \in FetchOutcomes : Len(f.posts) <= 1}

\* line 132: fetch_and_parse_reddit_search, with the outcome f
FetchWith(f) ==
    /\ UNCHANGED soup
    /\ pc = "fetch"
    /\ LET e == f.exc
           ps == f.posts
       IN
        /\ cyc' = [S |-> notified_ids, fetchOk |-> f.ok, ids |-> PostIdSeq(ps),
                   idset |-> Range(PostIdSeq(ps)),
                   notes |-> <<>>,
                   delivered |-> TRUE,
                   status |-> IF e = NoExc THEN "running" ELSE "raised",
                   repeat |-> /\ cyc.status = "returned"
                              /\ cyc.fetchOk
                              /\ f.ok
                              /\ Range(PostIdSeq(ps)) = cyc.idset]
        /\ IF e = NoExc
           THEN /\ posts' = ps
                /\ idx' = 1
                /\ notified_cnt' = 0
                /\ pc' = "loop"
                /\ UNCHANGED <<err, out>>
           ELSE Raise(e)
    /\ ran' = ran + 1
    /\ stats' = NoStats
    /\ UNCHANGED <<apiKey, file, notified_ids, q>>
    /\ UNCHANGED <<sent, loaded, saves, lastSaved, unsaved, savedSent>>

\* line 132, the site answering with any page or failing
Fetch == pc = "fetch" /\ \E f \in FetchOutcomes : FetchWith(f)

\* the fetch when the site has at most one result for a query
FetchShort == pc = "fetch" /\ \E f \in ShortOutcomes : FetchWith(f)

\* lines 135-156: one iteration of the for-loop over posts
ProcessPost ==
    /\ UNCHANGED soup
    /\ pc = "loop"
    /\ idx <= Len(posts)
    /\ LET post == posts[idx] IN
        IF ~IsNew(post.id, notified_ids)
        THEN /\ idx' = idx + 1
             /\ UNCHANGED <<pc, err, posts, out, notified_ids, notified_cnt, sent, cyc,
                            unsaved>>
        ELSE IF build_exception(post) # NoExc
        THEN /\ Raise(build_exception(post))
             /\ cyc' = [cyc EXCEPT !.status = "raised"]
             /\ UNCHANGED <<notified_ids, sent, unsaved>>
        ELSE \E delivered \in BOOLEAN :
             LET e == send_pushbullet_notification(apiKey, delivered)
                 note == [id |-> post.id,
                          title |-> NotificationTitle(cfg[q].subreddit, post),
                          body |-> NotificationBody(post)]
                 \* line 113: with a key, the POST is made, delivered or not
                 notes == IF apiKey THEN Append(cyc.notes, note) ELSE cyc.notes
             IN
             /\ sent' = IF apiKey THEN [sent EXCEPT ![post.id] = @ + 1] ELSE sent
             /\ unsaved' = IF apiKey THEN unsaved \cup {post.id} ELSE unsaved
             /\ IF e # NoExc
                THEN /\ Raise(e)
                     /\ cyc' = [cyc EXCEPT !.status = "raised", !.notes = notes,
                                           !.delivered = delivered]
                     /\ UNCHANGED notified_ids
                ELSE /\ notified_cnt' = notified_cnt + 1
                     /\ notified_ids' = AddId(notified_ids, post.id)
                     /\ cyc' = [cyc EXCEPT !.notes = notes, !.delivered = delivered]
                     /\ idx' = idx + 1
                     /\ UNCHANGED <<pc, err, posts, out>>
    /\ UNCHANGED <<apiKey, file, q>>
    /\ UNCHANGED <<stats, loaded, ran, saves, lastSaved, savedSent>>

\* lines 158-160: the summary line and the return
EndCycle ==
    /\ UNCHANGED soup
    /\ pc = "loop"
    /\ idx > Len(posts)
    /\ stats' = [total |-> Len(posts), new |-> notified_cnt]
    /\ cyc' = [cyc EXCEPT !.status = "returned"]
    /\ posts' = <<>>
    /\ idx' = 1
    /\ notified_cnt' = 0
    /\ pc' = "pace"
    /\ UNCHANGED <<apiKey, file, notified_ids, q, out, err>>
    /\ UNCHANGED <<sent, loaded, ran, saves, lastSaved, unsaved, savedSent>>

\* what is remembered of a cycle once the process has moved on: how it
\* ended and the set of ids it had fetched
Past(c) == [NoCycle EXCEPT !.status = c.status, !.fetchOk = c.fetchOk, !.idset = c.idset]

\* line 237: time.sleep(10), then the next search_config, or the save
Pace ==
    /\ UNCHANGED soup
    /\ pc = "pace"
    /\ q' = q + 1
    /\ pc' = AfterCycle(q)
    /\ cyc' = Past(cyc)
    /\ stats' = NoStats
    /\ UNCHANGED <<apiKey, file, notified_ids, posts, idx, notified_cnt, out, err>>
    /\ UNCHANGED <<sent, loaded, ran, saves, lastSaved, unsaved, savedSent>>

\* line 238: open(notified_ids_fname, "w") truncates the file
SaveOpen ==
    /\ UNCHANGED soup
    /\ pc = "save"
    /\ \/ /\ file' = [exists |-> TRUE, text |-> <<>>]
          /\ \E order \in Perms(notified_ids) : out' = JsonDump(order)
          /\ pc' = "dump"
          /\ UNCHANGED <<err, posts, idx, notified_cnt>>
       \/ /\ Raise("OSError")
          /\ UNCHANGED file
    /\ UNCHANGED <<apiKey, notified_ids, q>>
    /\ UNCHANGED <<stats, cyc, sent, loaded, ran, saves, lastSaved, unsaved, savedSent>>

\* line 239: json.dump writes through the file's buffer; part of the text
\* may reach the disk before the close
SaveFlush ==
    /\ UNCHANGED soup
    /\ pc = "dump"
    /\ \E n \in (Len(file.text) + 1)..(Len(out) - 1) :
        file' = [file EXCEPT !.text = SubSeq(out, 1, n)]
    /\ UNCHANGED <<pc, apiKey, notified_ids, q, posts, idx, notified_cnt, out, err>>
    /\ UNCHANGED <<stats, cyc, sent, loaded, ran, saves, lastSaved, unsaved, savedSent>>

\* lines 238-239: the end of the with-block: the rest is written, the file
\* closed; or the write fails and the file keeps what reached the disk
SaveClose ==
    /\ UNCHANGED soup
    /\ pc = "dump"
    /\ \/ /\ file' = [file EXCEPT !.text = out]
          /\ saves' = saves + 1
          /\ lastSaved' = notified_ids
          /\ unsaved' = {}
          /\ pc' = "sleep"
          /\ out' = <<>>
          /\ UNCHANGED <<err, posts, idx, notified_cnt>>
       \/ /\ Raise("OSError")
          /\ UNCHANGED <<file, saves, lastSaved, unsaved>>
    /\ UNCHANGED <<apiKey, notified_ids, q>>
    /\ UNCHANGED <<stats, cyc, sent, loaded, ran, savedSent>>

\* lines 242-243: sleep five minutes, back to the top of the while-loop
Sleep ==
    /\ UNCHANGED soup
    /\ pc = "sleep"
    /\ pc' = "pass"
    /\ cyc' = Past(cyc)
    /\ UNCHANGED <<apiKey, file, notified_ids, q, posts, idx, notified_cnt, out, err>>
    /\ UNCHANGED <<stats, sent, loaded, ran, saves, lastSaved, unsaved, savedSent>>

\* the process ends: its memory is gone, the file stays
Die(e) ==
    /\ pc' = "dead"
    /\ err' = e
    /\ notified_ids' = {}
    /\ q' = 1
    /\ posts' = <<>>
    /\ idx' = 1
    /\ notified_cnt' = 0
    /\ out' = <<>>
    /\ stats' = NoStats
    /\ cyc' = NoCycle
    /\ savedSent' = savedSent \cup ({id \in AllIds : sent[id] > 0} \ unsaved)
    /\ sent' = [id \in AllIds |-> 0]
    /\ loaded' = {}
    /\ ran' = 0
    /\ saves' = 0
    /\ unsaved' = {}

\* the process is terminated from outside (signal, power loss)
Kill ==
    /\ UNCHANGED soup
    /\ pc \notin {"boot", "dead"}
    /\ Die("killed")
    /\ UNCHANGED <<apiKey, file, lastSaved>>

\* the process is started again: main() from the top
Restart ==
    /\ UNCHANGED soup
    /\ pc = "dead"
    /\ pc' = "boot"
    /\ err' = NoExc
    /\ UNCHANGED <<apiKey, file, notified_ids, q, posts, idx, notified_cnt, out>>
    /\ UNCHANGED <<stats, cyc, sent, loaded, ran, saves, lastSaved, unsaved, savedSent>>

\* one run of the process
Next ==
    \/ LoadIds
    \/ BeginPass
    \/ Fetch
    \/ ProcessPost
    \/ EndCycle
    \/ Pace
    \/ SaveOpen
    \/ SaveFlush
    \/ SaveClose
    \/ Sleep
    \/ Kill

Spec == Init /\ [][Next]_vars

\* runs of the process, one after the other, on the same file
NextRestart ==
    \/ Next
    \/ Restart

\* the first run starts on a machine that has no notified_ids.json yet
InitRestart == Init /\ file = NoFile

SpecRestart == InitRestart /\ [][NextRestart]_vars

\* a run that nothing outside stops, on a machine with no notified_ids.json
\* yet and a site with at most one result per query; the interpreter goes on
\* executing the statement it is at
NextLive ==
    \/ LoadIds
    \/ BeginPass
    \/ FetchShort
    \/ ProcessPost
    \/ EndCycle
    \/ Pace
    \/ SaveOpen
    \/ SaveFlush
    \/ SaveClose
    \/ Sleep

InitLive == Init /\ file = NoFile

SpecLive == InitLive /\ [][NextLive]_vars /\ WF_vars(NextLive)

(* A search-result node with any of the things the parser looks for        *)
(* missing: the data-fullname, the title link or its href, the author       *)
(* link, the time element or its datetime.                                  *)
RichNodes ==
    [fullname : {<<FullNamePool[1]>>, Absent},
     title : {<<[text |-> " Post ", href |-> <<RelLink>>]>>,
              <<[text |-> " Post ", href |-> Absent]>>,
              Absent},
     author : {<<"alice">>, Absent},
     time : {<<[datetime |-> <<s>>]>> : s \in TimeStrs}
            \cup {<<[datetime |-> Absent]>>, Absent}]

RichDownloads ==
    {[ok |-> TRUE, doc |-> d] : d \in SeqsUpTo(RichNodes, MaxPosts)} \cup {NoSoup}

\* the first cycle of a run with the credential set and no file, at the
\* point where the download of its page has returned
InitExtract ==
    /\ pc = "fetch"
    /\ apiKey = TRUE
    /\ file = NoFile
    /\ notified_ids = {}
    /\ q = 1
    /\ posts = <<>>
    /\ idx = 1
    /\ notified_cnt = 0
    /\ out = <<>>
    /\ err = NoExc
    /\ soup \in RichDownloads
    /\ stats = NoStats
    /\ cyc = NoCycle
    /\ sent = [id \in AllIds |-> 0]
    /\ loaded = {}
    /\ ran = 0
    /\ saves = 0
    /\ lastSaved = {}
    /\ unsaved = {}
    /\ savedSent = {}

\* lines 97-99 and 132-133: the downloaded page is parsed and the cycle
\* starts on its posts
FetchSoup ==
    FetchWith([ok |-> soup.ok,
               exc |-> download_exception(soup),
               posts |-> fetch_and_parse_reddit_search(soup)])

\* that cycle, to its return or to the exception that ends it
NextExtract ==
    \/ FetchSoup
    \/ ProcessPost
    \/ EndCycle

SpecExtract == InitExtract /\ [][NextExtract]_vars

(* ============================ properties =============================== *)
\* the record before the one the for-loop is at was one with this id
JustPassed(id) == pc = "loop" /\ idx > 1 /\ posts[idx - 1].id = id

\* the ids, in sequence order, that are not in S and not an earlier element
RECURSIVE FirstNewIds(_, _)
FirstNewIds(ids, S) ==
    IF ids = <<>> THEN <<>>
    ELSE IF Head(ids) \in S THEN FirstNewIds(Tail(ids), S)
    ELSE <<Head(ids)>> \o FirstNewIds(Tail(ids), S \cup {Head(ids)})

NoteIds == [k \in 1..Len(cyc.notes) |-> cyc.notes[k].id]

\* the cycle has just ended, by its return or by an exception
Returned == pc = "pace"
Raised == pc = "sleep" /\ cyc.status = "raised"

\* C1: within one process run at most one notification is dispatched per
\* post id, whatever the queries, fetched pages, failures and exceptions.
C1_NoDuplicateInRun == \A id \in AllIds : sent[id] <= 1

\* an id notified earlier in the run came back under another query and was
\* passed over
C1_Witness ==
    \E id \in AllIds :
        /\ sent[id] = 1
        /\ id \in cyc.S
        /\ JustPassed(id)
        /\ q = 2

\* C2: a cycle whose fetch succeeded dispatches exactly the first occurrence
\* of every id not in the entry set, in order; ends with the entry set united
\* with all record ids; and reports total = n, new = dispatches.
C2_CycleResult ==
    (apiKey /\ cyc.fetchOk /\ (Returned \/ Raised)) =>
        /\ NoteIds = FirstNewIds(cyc.ids, cyc.S)
        /\ notified_ids = cyc.S \cup Range(cyc.ids)
        /\ stats = [total |-> Len(cyc.ids), new |-> Len(cyc.notes)]

\* C3: a cycle that gets the same set of result ids as the cycle that
\* returned just before it dispatches nothing, leaves the set as it is, does
\* not raise and reports new = 0.
C3_Idempotent ==
    cyc.repeat =>
        /\ cyc.notes = <<>>
        /\ notified_ids = cyc.S
        /\ cyc.status # "raised"
        /\ Returned => stats = [total |-> Len(cyc.ids), new |-> 0]

\* the second of two such cycles returned, over ids the run had notified
C3_Witness ==
    /\ cyc.repeat
    /\ Returned
    /\ \E id \in Range(cyc.ids) : sent[id] = 1

\* the step in which a notification is handed to the channel and not delivered
DeliveryFails ==
    /\ Len(cyc'.notes) = Len(cyc.notes) + 1
    /\ ~cyc'.delivered

C4_FailedStep ==
    DeliveryFails =>
        /\ notified_cnt' = notified_cnt + 1
        /\ idx' = idx + 1
        /\ pc' = "loop"
        /\ err' = err
        /\ posts[idx].id \in notified_ids'

\* C4: a delivery failure is no exception to the cycle: the post counts as
\* new, its id enters the set and the loop goes on to the next record; every
\* dispatched id, delivered or not, is in the set and is never dispatched a
\* second time in the run.
C4_DeliveryFailureMarked ==
    /\ [](\A id \in AllIds : sent[id] >= 1 => (id \in notified_ids /\ sent[id] = 1))
    /\ [](Returned => stats.new = Len(cyc.notes))
    /\ [][C4_FailedStep]_vars

\* the delivery for the first record failed and the loop has gone on past a
\* second record with the same id
C4_Witness ==
    /\ Len(cyc.notes) = 1
    /\ ~cyc.delivered
    /\ pc = "loop"
    /\ idx = 3
    /\ posts[1].id = cyc.notes[1].id
    /\ posts[2].id = posts[1].id
    /\ notified_cnt = 1

\* a failed fetch gives a cycle with no posts: nothing dispatched, the
\* set as on entry, stats (0, 0), no exception; and a pass that ends without
\* an exception has run every query and its save.
C5_FetchFailure ==
    /\ (cyc.status # "none" /\ ~cyc.fetchOk) => cyc.status # "raised"
    /\ (pc \in {"loop", "pace"} /\ ~cyc.fetchOk) =>
        /\ posts = <<>>
        /\ cyc.notes = <<>>
        /\ notified_ids = cyc.S
        /\ Returned => stats = [total |-> 0, new |-> 0]
    /\ (pc = "sleep" /\ err = NoExc) => (ran = NumQueries /\ saves = 1)

\* the steps after a cycle whose fetch failed: the return, then on to the
\* next query, or to the save after the last one
C5_AfterFailedFetch ==
    /\ (pc = "loop" /\ ~cyc.fetchOk /\ pc' # "dead") =>
        (pc' = "pace" /\ err' = NoExc)
    /\ (pc = "pace" /\ ~cyc.fetchOk /\ pc' # "dead") =>
        /\ pc' = (IF q < NumQueries THEN "fetch" ELSE "save")
        /\ q' = q + 1
        /\ err' = NoExc

\* C5: both of the above: in every state, and at every such step.
C5_FetchFailureIsolated == []C5_FetchFailure /\ [][C5_AfterFailedFetch]_vars

\* the cycle of the first query returned after a failed fetch and the second
\* query is about to be fetched
C5_Witness ==
    /\ pc = "fetch"
    /\ q = 2
    /\ ran = 1
    /\ cyc.status = "returned"
    /\ ~cyc.fetchOk

\* a new record whose timestamp is None is notified like any other: the
\* step of the loop dispatches its notification, adds its id and goes on.
C6_NullTimeStep ==
    (/\ pc = "loop"
     /\ idx <= Len(posts)
     /\ posts[idx].time = None
     /\ IsNew(posts[idx].id, notified_ids)
     /\ apiKey
     /\ pc' # "dead") =>
        /\ sent'[posts[idx].id] = sent[posts[idx].id] + 1
        /\ posts[idx].id \in notified_ids'
        /\ idx' = idx + 1
        /\ pc' = "loop"

\* C6: at every step of the loop that is at a new record with a None
\* timestamp, the notification is built and dispatched without failing.
C6_NullTimestampNotified == [][C6_NullTimeStep]_vars

\* C7: when the cycle of a query raises, the pass still runs the cycles of
\* all its queries and ends with its save.
C7_QueryIsolation ==
    (pc = "sleep" /\ cyc.status = "raised") => (ran = NumQueries /\ saves = 1)

C8_WriteStep ==
    (file' # file) =>
        /\ pc \in {"save", "dump"}
        /\ q = NumQueries + 1
        /\ ran = NumQueries
        /\ cyc.status = "returned"
        /\ saves = 0

\* C8: the file is written only by the save that follows the returned cycle
\* of the last query; a pass saves once if it raised nothing and not at all
\* otherwise; right after the save the file holds the in-memory set.
C8_SavedOncePerPass ==
    /\ [](pc = "sleep" => (saves = (IF err = NoExc THEN 1 ELSE 0)))
    /\ []((pc = "sleep" /\ saves = 1) =>
            (file.exists /\ JsonValid(file.text) /\ JsonLoadSet(file.text) = notified_ids))
    /\ [][C8_WriteStep]_vars

\* a save that wrote two ids notified in its run
C8_Witness ==
    /\ pc = "sleep"
    /\ saves = 1
    /\ unsaved = {}
    /\ Cardinality(notified_ids \ loaded) >= 2

\* C9: an id in the set loaded at the start of a run is not notified in that
\* run, and an id notified in an earlier run that completed a save afterwards
\* is not notified in any later run.
C9_DurableAcrossRuns ==
    /\ \A id \in loaded : sent[id] = 0
    /\ \A id \in savedSent : sent[id] = 0

\* a post notified and saved in the first run came back in the second and
\* was passed over
C9_Witness ==
    \E id \in savedSent \cap loaded :
        /\ JustPassed(id)
        /\ sent[id] = 0
        /\ lastSaved = loaded

\* C10: the file always holds a complete list: the set of the last completed
\* save, or the set being saved.
C10_AtomicSave ==
    file.exists =>
        /\ JsonValid(file.text)
        /\ \/ JsonLoadSet(file.text) = lastSaved
           \/ pc = "dump" /\ file.text = out

\* the positions inside a pass
InPass == {"fetch", "loop", "pace", "save", "dump", "sleep"}

\* C11: once the loop has started no error ends the process: from every
\* position inside a pass, whatever was raised there, the top of the
\* while-loop is reached again, and from there the next pass begins.
C11_NextPassBegins ==
    /\ (pc \in InPass) ~> (pc = "pass")
    /\ (pc = "pass") ~> (pc = "fetch")
    /\ [][pc # "boot" => pc' # "dead"]_vars

\* a pass that ended with the write of the file failing is over and the
\* loop is back at its top
C11_Witness == pc = "pass" /\ err = "OSError" /\ ran = NumQueries

\* C12: without the credential the process ends at startup: it never starts
\* a search cycle.
C12_MissingCredentialAbortsStartup ==
    ~apiKey => (pc \notin {"loop", "pace", "save", "dump", "sleep"} /\ ran = 0)

\* the load, started with no notified_ids.json on disk
C13_LoadStep ==
    (pc = "boot" /\ ~file.exists) =>
        (notified_ids' = {} /\ loaded' = {} /\ pc' = "pass" /\ err' = NoExc)

\* C13: with no file the load gives the empty set and the process enters the
\* loop; until a save creates the file, a post is passed over only if this
\* run has notified it: every other fetched post is new.
C13_AbsentFileIsEmptySet ==
    /\ [][C13_LoadStep]_vars
    /\ []((~file.exists /\ pc \in InPass \cup {"pass"}) =>
            /\ loaded = {}
            /\ \A id \in AllIds : id \in notified_ids <=> sent[id] = 1)

\* the first cycle of a run started with no file has notified a post
C13_Witness ==
    /\ ~file.exists
    /\ pc = "loop"
    /\ loaded = {}
    /\ ran = 1
    /\ Len(cyc.notes) = 1
    /\ notified_ids = {cyc.notes[1].id}

\* the load, started on a file: lastSaved is the set the last completed save
\* was given
C14_LoadStep ==
    (pc = "boot" /\ file.exists /\ pc' # "boot") =>
        /\ (\E o \in Perms(lastSaved) : file.text = JsonDump(o)) => pc' = "pass"
        /\ pc' = "pass" => notified_ids' = lastSaved

\* C14: a start that loads what a completed save wrote gets the set that
\* save was given, in whatever order the save listed the ids.
C14_RoundTrip == [][C14_LoadStep]_vars

\* a run loaded a saved set of two ids, the empty string among them and not
\* first in the file
C14_Witness ==
    /\ pc = "pass"
    /\ ran = 0
    /\ file.exists
    /\ loaded = lastSaved
    /\ Cardinality(loaded) = 2
    /\ "" \in loaded
    /\ file.text[2] # ""

\* the step of the for-loop at a record whose id is the empty string: passed
\* over when "" is in the set; otherwise, the credential set and the record's
\* time parsed, notified and "" added
C15_EmptyIdStep ==
    (pc = "loop" /\ idx <= Len(posts) /\ posts[idx].id = "" /\ pc' # "dead") =>
        IF "" \in notified_ids
        THEN /\ idx' = idx + 1
             /\ pc' = "loop"
             /\ sent' = sent
             /\ notified_ids' = notified_ids
             /\ err' = err
        ELSE (apiKey /\ posts[idx].time # None) =>
             /\ sent'[""] = 1
             /\ notified_ids' = notified_ids \cup {""}
             /\ idx' = idx + 1
             /\ pc' = "loop"
             /\ err' = err

\* C15: the empty string is a dedup key like any other: a fetch that finds
\* nodes without data-fullname does not raise, the step at such a record is
\* a skip or a notification, and "" is notified at most once in a run and is
\* in the set from then on.
C15_EmptyIdTolerated ==
    /\ [][C15_EmptyIdStep]_vars
    /\ [][pc = "fetch" => pc' \in {"loop", "dead"}]_vars
    /\ [](sent[""] <= 1 /\ (sent[""] = 1 => "" \in notified_ids))

\* a record without id was notified under the first query and another one
\* was passed over under the second
C15_Witness ==
    /\ sent[""] = 1
    /\ "" \in cyc.S
    /\ JustPassed("")
    /\ q = 2

\* r holds, field by field, what node n has, or the fallback of the field
FieldsOf(n, r) ==
    /\ DOMAIN r = {"id", "title", "author", "link", "time"}
    /\ r.id = (IF Has(n.fullname) THEN Val(n.fullname)[Len(Val(n.fullname))] ELSE "")
    /\ r.title = (IF Has(n.title) THEN "Post" ELSE "No title found")
    /\ r.author = (IF Has(n.author) THEN Val(n.author) ELSE "Unknown")
    /\ r.link = (IF Has(n.title) /\ Has(Val(n.title).href)
                 THEN <<Origin, "/", "r/x/comments/1">> ELSE <<>>)
    /\ r.time = (IF /\ Has(n.time)
                    /\ Has(Val(n.time).datetime)
                    /\ Val(Val(n.time).datetime) \in IsoTimes
                 THEN Val(Val(n.time).datetime) ELSE None)

\* C16: the parser gives one record per search-result node, in document
\* order, each field the node's or its fallback, whatever the node is
\* missing; no node gives no record; the parse does not raise (the one
\* exception of the cycle is the TypeError of its for-loop).
C16_OneRecordPerNode ==
    /\ (soup.ok /\ ran = 1) => (cyc.status # "none" /\ Len(cyc.ids) = Len(soup.doc))
    /\ (soup.ok /\ pc = "loop") =>
        /\ Len(posts) = Len(soup.doc)
        /\ \A k \in 1..Len(posts) : FieldsOf(soup.doc[k], posts[k])
    /\ err \in {NoExc, "TypeError"}

\* a page of two nodes, the first with nothing the parser looks for, has
\* given two records, the first all fallbacks
C16_Witness ==
    /\ pc = "loop"
    /\ Len(soup.doc) = 2
    /\ soup.doc[1] = [fullname |-> Absent, title |-> Absent, author |-> Absent,
                      time |-> Absent]
    /\ Has(soup.doc[2].fullname)
    /\ Len(posts) = 2
    /\ posts[1] = [id |-> "", title |-> "No title found", author |-> "Unknown",
                   link |-> <<>>, time |-> None]

\* the step of the for-loop at a new record, its time parsed, that comes
\* from a node without author link
C17_NoAuthorStep ==
    (/\ pc = "loop"
     /\ idx <= Len(posts)
     /\ soup.ok
     /\ ~Has(soup.doc[idx].author)
     /\ IsNew(posts[idx].id, notified_ids)
     /\ posts[idx].time # None) =>
        /\ Len(cyc'.notes) = Len(cyc.notes) + 1
        /\ LET n == cyc'.notes[Len(cyc'.notes)]
           IN /\ n.id = posts[idx].id
              /\ n.title[4] = "Unknown"
              /\ n.body[4] = "Unknown"
        /\ posts[idx].id \in notified_ids'
        /\ idx' = idx + 1
        /\ pc' = "loop"

\* C17: the record of a node without author link has author "Unknown", and
\* the cycle notifies it, with "Unknown" in title and body, and adds its id.
C17_UnknownAuthorNotified ==
    /\ []((soup.ok /\ pc = "loop") =>
            \A k \in 1..Len(posts) :
                ~Has(soup.doc[k].author) => posts[k].author = "Unknown")
    /\ [][C17_NoAuthorStep]_vars

\* the first record, from a node without author link, has been notified
C17_Witness ==
    /\ pc = "loop"
    /\ idx = 2
    /\ ~Has(soup.doc[1].author)
    /\ Len(cyc.notes) = 1
    /\ cyc.notes[1].title[4] = "Unknown"
    /\ cyc.notes[1].id = posts[1].id
    /\ posts[1].id \in notified_ids

\* the step of the for-loop at a record: a skip or an exception leaves the
\* set as it is; the set changes only by the id of the record, together
\* with its notification and the count
C18_LoopStep ==
    (pc = "loop" /\ idx <= Len(posts) /\ pc' # "dead") =>
        /\ ~IsNew(posts[idx].id, notified_ids) =>
            (notified_ids' = notified_ids /\ notified_cnt' = notified_cnt /\ sent' = sent)
        /\ pc' = "sleep" =>
            (notified_ids' = notified_ids /\ posts[idx].id \notin notified_ids')
        /\ notified_ids' # notified_ids =>
            /\ notified_ids' = notified_ids \cup {posts[idx].id}
            /\ sent'[posts[idx].id] = sent[posts[idx].id] + 1
            /\ notified_cnt' = notified_cnt + 1

\* C18: every id in the set that was not loaded at start has had exactly one
\* notification handed over in this run; a record that is skipped or whose
\* notification raises adds nothing, so its id is still new afterwards.
C18_AddedOnlyAfterDispatch ==
    /\ [](\A id \in notified_ids \ loaded : sent[id] = 1)
    /\ [][C18_LoopStep]_vars

\* a cycle notified one post and then raised at another: the first id is in
\* the set, the other is not
C18_Witness ==
    /\ Raised
    /\ err = "TypeError"
    /\ Len(cyc.notes) = 1
    /\ cyc.notes[1].id \in notified_ids \ loaded
    /\ \E id \in Range(cyc.ids) : id \notin notified_ids /\ sent[id] = 0

\* the steps of the cycles of a pass, and the steps after a cycle has
\* raised, leave the file as it is
C19_FileFrame ==
    (pc \in {"fetch", "loop", "pace"} \/ cyc.status = "raised") => file' = file

\* C19: a pass that a cycle's exception cut short has not saved and has not
\* touched the file; the ids its cycles notified are in the in-memory set, in
\* no copy on disk, and are notified once in the run.
C19_AbortedPassKeepsFile ==
    /\ [][C19_FileFrame]_vars
    /\ [](Raised =>
            /\ saves = 0
            /\ pc \notin {"save", "dump"}
            /\ unsaved \subseteq notified_ids
            /\ Range(NoteIds) \subseteq unsaved
            /\ \A id \in unsaved : sent[id] = 1
            /\ (file.exists /\ JsonValid(file.text)) =>
                    unsaved \cap JsonLoadSet(file.text) = {})

\* a cycle raised after it had notified a post: the file is the one loaded
\* at start and does not have the post's id, the set in memory has it
C19_Witness ==
    /\ Raised
    /\ Len(cyc.notes) = 1
    /\ cyc.notes[1].id \in notified_ids
    /\ file.exists
    /\ JsonLoadSet(file.text) = loaded
    /\ cyc.notes[1].id \notin loaded

\* the ids that are in the text of the file, complete or not
FileIds == Range(file.text) \ {"[", "]"}

\* within a run no step takes an id out of the set
C20_GrowStep == (pc' # "dead") => notified_ids \subseteq notified_ids'

\* C20: in a run the in-memory set only grows, holds every id loaded at
\* start, and holds every id the file has.
C20_SetOnlyGrows ==
    /\ [][C20_GrowStep]_vars
    /\ [](pc \notin {"boot", "dead"} =>
            /\ loaded \subseteq notified_ids
            /\ file.exists => FileIds \subseteq notified_ids)

\* a run that loaded a saved set has notified another post and saved again
C20_Witness ==
    /\ pc = "sleep"
    /\ saves = 1
    /\ loaded # {}
    /\ notified_ids # loaded
    /\ savedSent = loaded
    /\ FileIds = notified_ids
====
